---- MODULE Spec2Model ----
(***************************************************************************)
(* gh-standup: activity collection (package github), prompt assembly and   *)
(* report generation (package llm) and the command's runStandup.           *)
(*                                                                         *)
(* Strings are sequences of one-character strings, so that Split,          *)
(* ReplaceAll, TrimSpace and len are computed as the Go code computes      *)
(* them.  Search queries are sequences of tokens.                          *)
(***************************************************************************)
EXTENDS Integers, Sequences, FiniteSets, TLC

VARIABLES
    pc,           \* position in runStandup / CollectActivity
    flagUser,     \* --user
    flagRepo,     \* --repo
    flagModel,    \* --model
    flagPrompts,  \* --prompts
    page,         \* the running collector's `page`
    collected,    \* the running collector's local `activities`
    activities,   \* CollectActivity's `activities`, then runStandup's
    caErr,        \* the error CollectActivity returned ("" for nil)
    commitsErr,   \* whether getCommits returned an error
    requests,     \* every search request issued, with what upstream answered
    fullLeft,     \* full pages upstream can still serve (environment)
    deep,         \* the sources that served a full page (environment)
    shortSizes,   \* sizes of the short pages upstream serves (environment)
    llmClient,    \* whether llm.NewClient was called
    activitySummary, \* GenerateStandupReport's formatted activity block
    promptConfig, \* the prompt configuration GenerateStandupReport loaded
    promptMessages, \* the overrides runStandup parsed: [isNil, list]
    calls,        \* the completion requests sent, in order
    httpResponse, \* what the completion endpoint answered (environment)
    report,       \* what GenerateStandupReport returned: [text, err]
    output,       \* what the run printed or logged as its outcome, in order
    runErr,       \* the error runStandup returned ("" for nil)
    exitCode      \* the process exit code, -1 while running

vars == <<pc, flagUser, flagRepo, flagModel, flagPrompts, page, collected, activities, caErr,
          commitsErr, requests, fullLeft, deep, shortSizes, llmClient,
          activitySummary, promptConfig, promptMessages, calls, httpResponse,
          report, output, runErr, exitCode>>

collectVars == <<page, collected, activities, caErr, commitsErr, requests,
                 fullLeft, deep>>
llmVars == <<llmClient, activitySummary, promptConfig, promptMessages, calls,
             httpResponse, report>>
flagVars == <<flagRepo, flagModel, flagPrompts, shortSizes>>

----------------------------------------------------------------------------
(* Bounds of the model and constants of the program *)

perPage == 100          \* perPage := 100
maxPage == 10           \* if page > 10 { break }
descLimit == 200        \* len(pr.Description) < 200
StatusOK == 200         \* http.StatusOK

MaxDeepSources == 1     \* sources that hold a full page or more
RunFullPages == 0       \* full pages upstream serves in one whole run
MaxActivities == 2      \* activities formatActivitiesForLLM is applied to
PassFullPages == 2      \* full pages the sources serve in a run of SpecPass

----------------------------------------------------------------------------
(* Strings *)

NL == "\n"
Whitespace == {" ", "\n", "\t", "\r", "\f"}

RECURSIVE IndexFrom(_, _, _)
\* least i >= from with SubSeq(s, i, i+Len(sep)-1) = sep, or 0
IndexFrom(s, sep, from) ==
    IF from + Len(sep) - 1 > Len(s) THEN 0
    ELSE IF SubSeq(s, from, from + Len(sep) - 1) = sep THEN from
    ELSE IndexFrom(s, sep, from + 1)

RECURSIVE Split(_, _)
\* strings.Split(s, sep) for a non-empty sep
Split(s, sep) ==
    LET i == IndexFrom(s, sep, 1) IN
    IF i = 0 THEN <<s>>
    ELSE <<SubSeq(s, 1, i - 1)>> \o Split(SubSeq(s, i + Len(sep), Len(s)), sep)

\* strings.SplitN(s, sep, 2)
SplitN2(s, sep) ==
    LET i == IndexFrom(s, sep, 1) IN
    IF i = 0 THEN <<s>>
    ELSE <<SubSeq(s, 1, i - 1), SubSeq(s, i + Len(sep), Len(s))>>

RECURSIVE ReplaceAll(_, _, _)
\* strings.ReplaceAll(s, old, new) for a non-empty old
ReplaceAll(s, old, new) ==
    LET i == IndexFrom(s, old, 1) IN
    IF i = 0 THEN s
    ELSE SubSeq(s, 1, i - 1) \o new
           \o ReplaceAll(SubSeq(s, i + Len(old), Len(s)), old, new)

RECURSIVE TrimLeft(_)
TrimLeft(s) ==
    IF s # <<>> /\ s[1] \in Whitespace THEN TrimLeft(Tail(s)) ELSE s

RECURSIVE TrimRight(_)
TrimRight(s) ==
    IF s # <<>> /\ s[Len(s)] \in Whitespace
    THEN TrimRight(SubSeq(s, 1, Len(s) - 1)) ELSE s

\* strings.TrimSpace
TrimSpace(s) == TrimRight(TrimLeft(s))

Digit(d) == <<"0", "1", "2", "3", "4", "5", "6", "7", "8", "9">>[d + 1]

RECURSIVE Itoa(_)
\* %d of a non-negative int
Itoa(n) == IF n < 10 THEN <<Digit(n)>> ELSE Itoa(n \div 10) \o <<Digit(n % 10)>>

----------------------------------------------------------------------------
(* The search API: what upstream returns for one page request *)

Types == {"commit", "pull_request", "issue", "review"}

sRepo == <<"o", "/", "r">>

\* commit messages upstream holds: one line; subject and second line;
\* subject, blank line, body
CommitMessages == << <<"s">>, <<"s", NL, "b">>, <<"s", NL, NL, "b">> >>

\* pull-request / issue bodies upstream holds
Bodies == << <<>>, <<"b">>, <<" ", "b", NL>> >>

\* the i-th item of page pg of the search surface of collector c; its
\* html_url is unique to the item
UpstreamItem(c, pg, i) ==
    LET k == (i % 3) + 1
        n == (pg - 1) * perPage + i IN
    IF c = "commit"
    THEN [Repository |-> sRepo, Message |-> CommitMessages[k],
          HTMLURL |-> <<c, pg, i>>, Date |-> n]
    ELSE [Number |-> n, Title |-> <<"t">>, Body |-> Bodies[k],
          Repository |-> sRepo, HTMLURL |-> <<c, pg, i>>, CreatedAt |-> n]

UpstreamPage(c, pg, n) == [i \in 1..n |-> UpstreamItem(c, pg, i)]

\* the outcomes of c.client.Get for page pg of collector c: an error, or the
\* decoded items of an empty, a short or (while upstream has one) a full page
Responses(c, pg) ==
    {[err |-> TRUE, items |-> <<>>]}
    \cup {[err |-> FALSE, items |-> UpstreamPage(c, pg, n)] :
            n \in {0} \cup shortSizes
                   \cup (IF fullLeft > 0 /\ (c \in deep \/ Cardinality(deep) < MaxDeepSources)
                         THEN {perPage} ELSE {})}

----------------------------------------------------------------------------
(* package github: the four collectors *)

startDate == "START"    \* startDate.Format("2006-01-02")
endDate == "END"        \* endDate.Format("2006-01-02")

\* strings.ReplaceAll(baseQuery, " ", "%20")
escapeQuery(baseQuery) == ReplaceAll(baseQuery, <<" ">>, <<"%20">>)

getCommitsQuery(username, repo) ==
    escapeQuery(<<"author:", username, " ", "committer-date:", startDate, "..", endDate>>
                \o (IF repo # "" THEN <<" ", "repo:", repo>> ELSE <<>>))

getPullRequestsQuery(username, repo) ==
    escapeQuery(<<"author:", username, " ", "created:", startDate, "..", endDate>>
                \o (IF repo # "" THEN <<" ", "repo:", repo>> ELSE <<>>))

getIssuesQuery(username, repo) ==
    escapeQuery(<<"author:", username, " ", "created:", startDate, "..", endDate>>
                \o (IF repo # "" THEN <<" ", "repo:", repo>> ELSE <<>>))

getReviewsQuery(username) ==
    escapeQuery(<<"reviewed-by:", username, " ", "created:", startDate, "..", endDate>>)

\* the URL of one page request
SearchRequest(path, q, qualifier, pg, sort) ==
    [path |-> path, q |-> q \o qualifier, per_page |-> perPage, page |-> pg,
     sort |-> sort, order |-> "desc"]

commitActivity(item) ==
    [Type |-> "commit", Repository |-> item.Repository,
     Title |-> Split(item.Message, <<NL>>)[1], Description |-> item.Message,
     URL |-> item.HTMLURL, CreatedAt |-> item.Date]

pullRequestActivity(item) ==
    [Type |-> "pull_request", Repository |-> item.Repository,
     Title |-> <<"P", "R", " ", "#">> \o Itoa(item.Number) \o <<":", " ">> \o item.Title,
     Description |-> item.Body, URL |-> item.HTMLURL, CreatedAt |-> item.CreatedAt]

issueActivity(item) ==
    [Type |-> "issue", Repository |-> item.Repository,
     Title |-> <<"I", "s", "s", "u", "e", " ", "#">> \o Itoa(item.Number)
                 \o <<":", " ">> \o item.Title,
     Description |-> item.Body, URL |-> item.HTMLURL, CreatedAt |-> item.CreatedAt]

sReviewed == <<"R", "e", "v", "i", "e", "w", "e", "d", " ">>

reviewActivity(item) ==
    [Type |-> "review", Repository |-> item.Repository,
     Title |-> sReviewed \o <<"P", "R", " ", "#">> \o Itoa(item.Number)
                 \o <<":", " ">> \o item.Title,
     Description |-> sReviewed \o <<"p", "u", "l", "l", " ", "r", "e", "q", "u", "e", "s", "t", ":", " ">>
                       \o item.Title,
     URL |-> item.HTMLURL, CreatedAt |-> item.CreatedAt]

\* One iteration of a collector's `for` loop on the response to the request
\* for page pg: whether the collector returns, with which error and
\* activities, and the page it requests next otherwise.
getCommits(pg, acts, resp) ==
    IF resp.err THEN [ret |-> TRUE, err |-> TRUE, page |-> pg, acts |-> acts]
    ELSE IF Len(resp.items) = 0
    THEN [ret |-> TRUE, err |-> FALSE, page |-> pg, acts |-> acts]
    ELSE LET added == acts \o [i \in 1..Len(resp.items) |-> commitActivity(resp.items[i])] IN
         IF Len(resp.items) < perPage
         THEN [ret |-> TRUE, err |-> FALSE, page |-> pg, acts |-> added]
         ELSE [ret |-> pg + 1 > maxPage, err |-> FALSE, page |-> pg + 1, acts |-> added]

\* getPullRequests putting each page in front of the pages before it
getPullRequestsPrepend(pg, acts, resp) ==
    IF resp.err THEN [ret |-> TRUE, err |-> TRUE, page |-> pg, acts |-> acts]
    ELSE IF Len(resp.items) = 0
    THEN [ret |-> TRUE, err |-> FALSE, page |-> pg, acts |-> acts]
    ELSE LET added == [i \in 1..Len(resp.items) |-> pullRequestActivity(resp.items[i])] \o acts IN
         IF Len(resp.items) < perPage
         THEN [ret |-> TRUE, err |-> FALSE, page |-> pg, acts |-> added]
         ELSE [ret |-> pg + 1 > maxPage, err |-> FALSE, page |-> pg + 1, acts |-> added]

getPullRequests(pg, acts, resp) ==
    IF resp.err THEN [ret |-> TRUE, err |-> TRUE, page |-> pg, acts |-> acts]
    ELSE IF Len(resp.items) = 0
    THEN [ret |-> TRUE, err |-> FALSE, page |-> pg, acts |-> acts]
    ELSE LET added == acts \o [i \in 1..Len(resp.items) |-> pullRequestActivity(resp.items[i])] IN
         IF Len(resp.items) < perPage
         THEN [ret |-> TRUE, err |-> FALSE, page |-> pg, acts |-> added]
         ELSE [ret |-> pg + 1 > maxPage, err |-> FALSE, page |-> pg + 1, acts |-> added]

\* getIssues requesting a page again when its request failed
getIssuesRetry(pg, acts, resp) ==
    IF resp.err THEN [ret |-> FALSE, err |-> FALSE, page |-> pg, acts |-> acts]
    ELSE IF Len(resp.items) = 0
    THEN [ret |-> TRUE, err |-> FALSE, page |-> pg, acts |-> acts]
    ELSE LET added == acts \o [i \in 1..Len(resp.items) |-> issueActivity(resp.items[i])] IN
         IF Len(resp.items) < perPage
         THEN [ret |-> TRUE, err |-> FALSE, page |-> pg, acts |-> added]
         ELSE [ret |-> pg + 1 > maxPage, err |-> FALSE, page |-> pg + 1, acts |-> added]

getIssues(pg, acts, resp) ==
    IF resp.err THEN [ret |-> TRUE, err |-> TRUE, page |-> pg, acts |-> acts]
    ELSE IF Len(resp.items) = 0
    THEN [ret |-> TRUE, err |-> FALSE, page |-> pg, acts |-> acts]
    ELSE LET added == acts \o [i \in 1..Len(resp.items) |-> issueActivity(resp.items[i])] IN
         IF Len(resp.items) < perPage
         THEN [ret |-> TRUE, err |-> FALSE, page |-> pg, acts |-> added]
         ELSE [ret |-> pg + 1 > maxPage, err |-> FALSE, page |-> pg + 1, acts |-> added]

\* getReviews without the safety check on the page number
getReviewsNoCap(pg, acts, resp) ==
    IF resp.err THEN [ret |-> TRUE, err |-> TRUE, page |-> pg, acts |-> acts]
    ELSE IF Len(resp.items) = 0
    THEN [ret |-> TRUE, err |-> FALSE, page |-> pg, acts |-> acts]
    ELSE LET added == acts \o [i \in 1..Len(resp.items) |-> reviewActivity(resp.items[i])] IN
         IF Len(resp.items) < perPage
         THEN [ret |-> TRUE, err |-> FALSE, page |-> pg, acts |-> added]
         ELSE [ret |-> FALSE, err |-> FALSE, page |-> pg + 1, acts |-> added]

getReviews(pg, acts, resp) ==
    IF resp.err THEN [ret |-> TRUE, err |-> TRUE, page |-> pg, acts |-> acts]
    ELSE IF Len(resp.items) = 0
    THEN [ret |-> TRUE, err |-> FALSE, page |-> pg, acts |-> acts]
    ELSE LET added == acts \o [i \in 1..Len(resp.items) |-> reviewActivity(resp.items[i])] IN
         IF Len(resp.items) < perPage
         THEN [ret |-> TRUE, err |-> FALSE, page |-> pg, acts |-> added]
         ELSE [ret |-> pg + 1 > maxPage, err |-> FALSE, page |-> pg + 1, acts |-> added]

----------------------------------------------------------------------------
(* package github: CollectActivity *)

\* What CollectActivity does when a collector has returned (got, err): the
\* activities it holds, the error it returns ("" while it goes on) and where
\* it continues.
\* CollectActivity keeping what getCommits returned along with its error
afterCommitsKeepPartial(acts, got, err) ==
    [acts |-> acts \o got, err |-> "", next |-> "getPullRequests"]

afterCommits(acts, got, err) ==
    [acts |-> IF err THEN acts ELSE acts \o got, err |-> "", next |-> "getPullRequests"]

afterPullRequests(acts, got, err) ==
    IF err THEN [acts |-> <<>>, err |-> "failed to get pull requests", next |-> "collected"]
    ELSE [acts |-> acts \o got, err |-> "", next |-> "getIssues"]

\* CollectActivity returning what it holds along with the issue error
afterIssuesPartial(acts, got, err) ==
    IF err THEN [acts |-> acts, err |-> "failed to get issues", next |-> "collected"]
    ELSE [acts |-> acts \o got, err |-> "", next |-> "getReviews"]

afterIssues(acts, got, err) ==
    IF err THEN [acts |-> <<>>, err |-> "failed to get issues", next |-> "collected"]
    ELSE [acts |-> acts \o got, err |-> "", next |-> "getReviews"]

afterReviews(acts, got, err) ==
    IF err THEN [acts |-> <<>>, err |-> "failed to get reviews", next |-> "collected"]
    ELSE [acts |-> acts \o got, err |-> "", next |-> "collected"]

\* the state change of one page request of collector c: r is the loop
\* iteration's outcome and a what CollectActivity does once c has returned
PageStep(c, req, resp, r, a) ==
    /\ requests' = Append(requests, [coll |-> c, req |-> req, err |-> resp.err,
                                     n |-> Len(resp.items)])
    /\ fullLeft' = IF Len(resp.items) = perPage THEN fullLeft - 1 ELSE fullLeft
    /\ deep' = IF Len(resp.items) = perPage THEN deep \cup {c} ELSE deep
    /\ IF r.ret
       THEN /\ pc' = a.next
            /\ activities' = a.acts
            /\ caErr' = a.err
            /\ page' = 1
            /\ collected' = <<>>
            /\ commitsErr' = IF c = "commit" THEN r.err ELSE commitsErr
       ELSE /\ page' = r.page
            /\ collected' = r.acts
            /\ UNCHANGED <<pc, activities, caErr, commitsErr>>
    /\ UNCHANGED <<flagUser, flagVars, llmVars, output, runErr, exitCode>>

SearchCommits ==
    /\ pc = "getCommits"
    /\ \E resp \in Responses("commit", page) :
         LET r == getCommits(page, collected, resp) IN
         PageStep("commit",
                  SearchRequest("search/commits", getCommitsQuery(flagUser, flagRepo),
                                <<>>, page, "committer-date"),
                  resp, r, afterCommits(activities, r.acts, r.err))

SearchPullRequests ==
    /\ pc = "getPullRequests"
    /\ \E resp \in Responses("pull_request", page) :
         LET r == getPullRequests(page, collected, resp) IN
         PageStep("pull_request",
                  SearchRequest("search/issues", getPullRequestsQuery(flagUser, flagRepo),
                                <<"+type:pr">>, page, "created"),
                  resp, r, afterPullRequests(activities, r.acts, r.err))

SearchIssues ==
    /\ pc = "getIssues"
    /\ \E resp \in Responses("issue", page) :
         LET r == getIssues(page, collected, resp) IN
         PageStep("issue",
                  SearchRequest("search/issues", getIssuesQuery(flagUser, flagRepo),
                                <<"+type:issue">>, page, "created"),
                  resp, r, afterIssues(activities, r.acts, r.err))

SearchReviews ==
    /\ pc = "getReviews"
    /\ \E resp \in Responses("review", page) :
         LET r == getReviews(page, collected, resp) IN
         PageStep("review",
                  SearchRequest("search/issues", getReviewsQuery(flagUser),
                                <<"+type:pr">>, page, "created"),
                  resp, r, afterReviews(activities, r.acts, r.err))

----------------------------------------------------------------------------
(* package llm: formatActivitiesForLLM *)

RECURSIVE Concat(_)
\* the strings of ss written one after the other (strings.Builder)
Concat(ss) ==
    IF ss = <<>> THEN <<>>
    ELSE IF Len(ss) = 1 THEN ss[1]
    ELSE LET half == Len(ss) \div 2 IN
         Concat(SubSeq(ss, 1, half)) \o Concat(SubSeq(ss, half + 1, Len(ss)))

sNoActivity == <<"N", "o", " ", "G", "i", "t", "H", "u", "b", " ", "a", "c", "t", "i", "v", "i", "t", "y", " ", "f", "o", "u", "n", "d", " ", "f", "o", "r", " ", "t", "h", "e", " ", "s", "p", "e", "c", "i", "f", "i", "e", "d", " ", "p", "e", "r", "i", "o", "d", ".">>
sCommits == <<"C", "O", "M", "M", "I", "T", "S", ":", NL>>
sPullRequests == <<"P", "U", "L", "L", " ", "R", "E", "Q", "U", "E", "S", "T", "S", ":", NL>>
sIssues == <<"I", "S", "S", "U", "E", "S", ":", NL>>
sCodeReviews == <<"C", "O", "D", "E", " ", "R", "E", "V", "I", "E", "W", "S", ":", NL>>
sDescription == <<" ", " ", "D", "e", "s", "c", "r", "i", "p", "t", "i", "o", "n", ":", " ">>

\* fmt.Sprintf("- [%s] %s\n", a.Repository, a.Title)
itemLine(a) == <<"-", " ", "[">> \o a.Repository \o <<"]", " ">> \o a.Title \o <<NL>>

\* fmt.Sprintf("  Description: %s\n", text)
descriptionLine(text) == sDescription \o text \o <<NL>>

formatCommit(commit) ==
    itemLine(commit)
    \o (IF commit.Description # commit.Title
        THEN LET lines == Split(commit.Description, <<NL>>) IN
             IF Len(lines) > 1 /\ lines[2] # <<>>
             THEN descriptionLine(TrimSpace(lines[2])) ELSE <<>>
        ELSE <<>>)

\* The characters of the samples that UTF-8 encodes in two bytes; every other
\* character of the model is ASCII and takes one.
TwoByteChars == {"é"}

Utf8Len(ch) == IF ch \in TwoByteChars THEN 2 ELSE 1

\* len(s) of a Go string: its number of bytes, not of characters.
ByteLen(s) == Len(s) + Cardinality({i \in DOMAIN s : Utf8Len(s[i]) = 2})

formatPullRequest(pr) ==
    itemLine(pr)
    \o (IF pr.Description # <<>> /\ ByteLen(pr.Description) < descLimit
        THEN descriptionLine(TrimSpace(pr.Description)) ELSE <<>>)

formatIssue(issue) ==
    itemLine(issue)
    \o (IF issue.Description # <<>> /\ ByteLen(issue.Description) < descLimit
        THEN descriptionLine(TrimSpace(issue.Description)) ELSE <<>>)

formatReview(review) == itemLine(review)

OfType(acts, t) == SelectSeq(acts, LAMBDA a : a.Type = t)

\* formatActivitiesForLLM with the pull requests written in reverse order
formatActivitiesForLLMReversed(acts) ==
    IF Len(acts) = 0 THEN sNoActivity
    ELSE LET commits == OfType(acts, "commit")
             prs == OfType(acts, "pull_request")
             issues == OfType(acts, "issue")
             reviews == OfType(acts, "review") IN
         (IF Len(commits) > 0
          THEN sCommits \o Concat([i \in 1..Len(commits) |-> formatCommit(commits[i])]) \o <<NL>>
          ELSE <<>>)
         \o (IF Len(prs) > 0
             THEN sPullRequests
                  \o Concat([i \in 1..Len(prs) |-> formatPullRequest(prs[Len(prs) + 1 - i])])
                  \o <<NL>>
             ELSE <<>>)
         \o (IF Len(issues) > 0
             THEN sIssues \o Concat([i \in 1..Len(issues) |-> formatIssue(issues[i])]) \o <<NL>>
             ELSE <<>>)
         \o (IF Len(reviews) > 0
             THEN sCodeReviews \o Concat([i \in 1..Len(reviews) |-> formatReview(reviews[i])]) \o <<NL>>
             ELSE <<>>)

formatActivitiesForLLM(acts) ==
    IF Len(acts) = 0 THEN sNoActivity
    ELSE LET commits == OfType(acts, "commit")
             prs == OfType(acts, "pull_request")
             issues == OfType(acts, "issue")
             reviews == OfType(acts, "review") IN
         (IF Len(commits) > 0
          THEN sCommits \o Concat([i \in 1..Len(commits) |-> formatCommit(commits[i])]) \o <<NL>>
          ELSE <<>>)
         \o (IF Len(prs) > 0
             THEN sPullRequests \o Concat([i \in 1..Len(prs) |-> formatPullRequest(prs[i])]) \o <<NL>>
             ELSE <<>>)
         \o (IF Len(issues) > 0
             THEN sIssues \o Concat([i \in 1..Len(issues) |-> formatIssue(issues[i])]) \o <<NL>>
             ELSE <<>>)
         \o (IF Len(reviews) > 0
             THEN sCodeReviews \o Concat([i \in 1..Len(reviews) |-> formatReview(reviews[i])]) \o <<NL>>
             ELSE <<>>)

----------------------------------------------------------------------------
(* package llm: GenerateStandupReport and callGitHubModels *)

UpperCase == <<"A", "B", "C", "D", "E", "F", "G", "H", "I", "J", "K", "L", "M", "N", "O", "P", "Q", "R", "S", "T", "U", "V", "W", "X", "Y", "Z">>
LowerCase == <<"a", "b", "c", "d", "e", "f", "g", "h", "i", "j", "k", "l", "m", "n", "o", "p", "q", "r", "s", "t", "u", "v", "w", "x", "y", "z">>

ToLowerChar(ch) ==
    IF \E i \in 1..Len(UpperCase) : UpperCase[i] = ch
    THEN LowerCase[CHOOSE i \in 1..Len(UpperCase) : UpperCase[i] = ch]
    ELSE ch

\* strings.ToLower
ToLower(s) == [i \in 1..Len(s) |-> ToLowerChar(s[i])]

sGpt5 == <<"o", "p", "e", "n", "a", "i", "/", "g", "p", "t", "-", "5">>
sGpt5Mini == <<"o", "p", "e", "n", "a", "i", "/", "g", "p", "t", "-", "5", "-", "m", "i", "n", "i">>

\* temperatures and top-p are in tenths: 1.0 is 10
modelTemperatureMap == {<<sGpt5Mini, 10>>, <<sGpt5, 10>>}

\* getMappedTemperature looking the name up as given
getMappedTemperatureExact(model) ==
    IF model = <<>> THEN [v |-> 0, ok |-> FALSE]
    ELSE IF \E e \in modelTemperatureMap : e[1] = model
    THEN [v |-> (CHOOSE e \in modelTemperatureMap : e[1] = model)[2], ok |-> TRUE]
    ELSE [v |-> 0, ok |-> FALSE]

getMappedTemperature(model) ==
    IF model = <<>> THEN [v |-> 0, ok |-> FALSE]
    ELSE IF \E e \in modelTemperatureMap : e[1] = ToLower(model)
    THEN [v |-> (CHOOSE e \in modelTemperatureMap : e[1] = ToLower(model))[2], ok |-> TRUE]
    ELSE [v |-> 0, ok |-> FALSE]

sPlaceholder == <<"{", "{", "a", "c", "t", "i", "v", "i", "t", "i", "e", "s", "}", "}">>

NoConfig == [ok |-> FALSE, Model |-> <<>>, Temperature |-> 0, TopP |-> 0, Messages |-> <<>>]
NilMessages == [isNil |-> TRUE, list |-> <<>>]
NoResponse == [sent |-> FALSE, status |-> 0, valid |-> FALSE, choices |-> <<>>]
NoReport == [text |-> <<>>, err |-> "", status |-> 0, body |-> <<>>]

\* GenerateStandupReport putting the overrides after the configured messages
buildRequestAppend(summary, config, model, overrides) ==
    LET selectedModel == IF model = <<>> THEN config.Model ELSE model
        prompts == IF overrides.isNil THEN config.Messages
                   ELSE config.Messages \o overrides.list
        mapped == getMappedTemperature(selectedModel)
    IN [Messages |-> [i \in 1..Len(prompts) |->
                        [Role |-> prompts[i].Role,
                         Content |-> ReplaceAll(prompts[i].Content, sPlaceholder, summary)]],
        Model |-> selectedModel,
        Temperature |-> IF mapped.ok THEN mapped.v ELSE config.Temperature,
        TopP |-> config.TopP,
        Stream |-> FALSE]

\* Lines 123-160: the request GenerateStandupReport builds from the formatted
\* block, the loaded configuration, the model name and the overrides.
buildRequest(summary, config, model, overrides) ==
    LET selectedModel == IF model = <<>> THEN config.Model ELSE model
        prompts == IF overrides.isNil THEN config.Messages ELSE overrides.list
        mapped == getMappedTemperature(selectedModel)
    IN [Messages |-> [i \in 1..Len(prompts) |->
                        [Role |-> prompts[i].Role,
                         Content |-> ReplaceAll(prompts[i].Content, sPlaceholder, summary)]],
        Model |-> selectedModel,
        Temperature |-> IF mapped.ok THEN mapped.v ELSE config.Temperature,
        TopP |-> config.TopP,
        Stream |-> FALSE]

\* callGitHubModels on the outcome of client.Do and io.ReadAll: an HTTP
\* response is [sent, status, valid, choices], valid saying whether the body
\* is JSON of the Response shape and choices being the contents of its
\* choices; the raw body is the pair <<valid, choices>>
callGitHubModels(http) ==
    IF ~http.sent THEN [err |-> "failed to make request", status |-> 0, body |-> <<>>, choices |-> <<>>]
    ELSE IF http.status # StatusOK
    THEN [err |-> "API request failed", status |-> http.status,
          body |-> <<http.valid, http.choices>>, choices |-> <<>>]
    ELSE IF ~http.valid
    THEN [err |-> "failed to unmarshal response", status |-> 0, body |-> <<>>, choices |-> <<>>]
    ELSE [err |-> "", status |-> 0, body |-> <<>>, choices |-> http.choices]

\* GenerateStandupReport taking the last choice instead of the first
reportOfLastChoice(response) ==
    IF response.err # ""
    THEN [text |-> <<>>, err |-> response.err, status |-> response.status, body |-> response.body]
    ELSE IF Len(response.choices) = 0
    THEN [text |-> <<>>, err |-> "no response generated from the model", status |-> 0, body |-> <<>>]
    ELSE [text |-> TrimSpace(response.choices[Len(response.choices)]), err |-> "",
          status |-> 0, body |-> <<>>]

\* Lines 163-173: what GenerateStandupReport returns on callGitHubModels's result
reportOf(response) ==
    IF response.err # ""
    THEN [text |-> <<>>, err |-> response.err, status |-> response.status, body |-> response.body]
    ELSE IF Len(response.choices) = 0
    THEN [text |-> <<>>, err |-> "no response generated from the model", status |-> 0, body |-> <<>>]
    ELSE [text |-> TrimSpace(response.choices[1]), err |-> "", status |-> 0, body |-> <<>>]

----------------------------------------------------------------------------
(* The inputs of a run *)

\* prompt configurations the embedded standup.prompt.yml may hold
Configs ==
    {[ok |-> TRUE, Model |-> <<"o", "p", "e", "n", "a", "i", "/", "g", "p", "t", "-", "4", "o">>, Temperature |-> 7, TopP |-> 9,
      Messages |-> << [Role |-> <<"s", "y", "s", "t", "e", "m">>, Content |-> <<"B", "e", " ", "b", "r", "i", "e", "f">>],
                      [Role |-> <<"u", "s", "e", "r">>, Content |-> <<"D", "a", "t", "a", ":", " ">> \o sPlaceholder] >>],
     [ok |-> TRUE, Model |-> sGpt5, Temperature |-> 3, TopP |-> 10,
      Messages |-> << [Role |-> <<"u", "s", "e", "r">>,
                       Content |-> sPlaceholder \o sPlaceholder \o <<" ", "{", "{", "a", "c", "t", "i", "v", "i", "t", "i", "e", "s", "}">>] >>]}

Models == {<<>>, <<"o", "p", "e", "n", "a", "i", "/", "g", "p", "t", "-", "4", "o">>, <<"O", "p", "e", "n", "A", "I", "/", "G", "P", "T", "-", "5">>}

\* --prompts values: none; two well-formed overrides; one whose message holds
\* a ':' and no placeholder; one without ':'; a well-formed one, then one
\* without ':'
PromptFlags ==
    { <<>>,
      << <<"s", "y", "s", "t", "e", "m">> \o <<":">> \o <<"B", "e", " ", "b", "r", "i", "e", "f">>,
         <<"u", "s", "e", "r">> \o <<":">> \o <<"x">> \o sPlaceholder \o <<"y">> \o sPlaceholder >>,
      << <<"u", "s", "e", "r">> \o <<":">> \o <<"a", ":", "b", " ", "{", "a", "c", "t", "i", "v", "i", "t", "i", "e", "s", "}">> >>,
      << <<"n", "o", " ", "s", "e", "p", "a", "r", "a", "t", "o", "r">> >>,
      << <<"u", "s", "e", "r">> \o <<":">> \o sPlaceholder, <<"n", "o", " ", "s", "e", "p", "a", "r", "a", "t", "o", "r">> >> }

\* the outcomes of the completion call
HTTPResponses ==
    {NoResponse,
     [sent |-> TRUE, status |-> 500, valid |-> FALSE, choices |-> <<>>],
     [sent |-> TRUE, status |-> 201, valid |-> TRUE, choices |-> << <<" ", "A", " ">> >>],
     [sent |-> TRUE, status |-> StatusOK, valid |-> FALSE, choices |-> <<>>],
     [sent |-> TRUE, status |-> StatusOK, valid |-> TRUE, choices |-> <<>>],
     [sent |-> TRUE, status |-> StatusOK, valid |-> TRUE, choices |-> << <<" ", " ", "R", "e", "p", "o", "r", "t", " ", "t", "e", "x", "t", " ", " ", NL>> >>],
     [sent |-> TRUE, status |-> StatusOK, valid |-> TRUE, choices |-> << <<" ", "A", " ">>, <<"B">> >>]}


Repos == {"", "o/r"}

\* CollectActivity alone: with or without a repository filter, against
\* sources of which MaxDeepSources hold more items than the collector fetches
InitCollect ==
    /\ pc = "getCommits"
    /\ flagUser = "u"
    /\ flagRepo \in Repos
    /\ flagModel = <<>>
    /\ flagPrompts = <<>>
    /\ page = 1
    /\ collected = <<>>
    /\ activities = <<>>
    /\ caErr = ""
    /\ commitsErr = FALSE
    /\ requests = <<>>
    /\ fullLeft = maxPage + 1
    /\ deep = {}
    /\ shortSizes = {perPage - 1}
    /\ llmClient = FALSE
    /\ activitySummary = <<>>
    /\ promptConfig = NoConfig
    /\ promptMessages = NilMessages
    /\ calls = <<>>
    /\ httpResponse = NoResponse
    /\ report = NoReport
    /\ output = <<>>
    /\ runErr = ""
    /\ exitCode = -1

NextCollect == SearchCommits \/ SearchPullRequests \/ SearchIssues \/ SearchReviews

SpecCollect == InitCollect /\ [][NextCollect]_vars

----------------------------------------------------------------------------
(* formatActivitiesForLLM alone, on the records the collectors make of
   sample items *)

sFixBug == <<"F", "i", "x", " ", "b", "u", "g">>
sDetailsHere == <<"D", "e", "t", "a", "i", "l", "s", " ", "h", "e", "r", "e">>

Repeat(ch, n) == [i \in 1..n |-> ch]

SampleCommitMessages ==
    {sFixBug \o <<NL, NL>> \o sDetailsHere,
     sFixBug,
     sDetailsHere,
     sFixBug \o <<NL>> \o sDetailsHere,
     sFixBug \o <<NL, " ">> \o sDetailsHere \o <<" ", NL>> \o sFixBug}

\* Bodies around the length limit, one padded with white space and one of
\* descLimit - 1 characters that takes descLimit bytes.
SampleBodies ==
    <<Repeat("x", 0), Repeat("x", 50), Repeat("x", descLimit - 1),
      Repeat("x", descLimit), Repeat("x", 250),
      <<" ">> \o sDetailsHere \o <<" ", NL>>,
      Repeat("x", descLimit - 2) \o <<"é">>>>

SampleCommit(message) ==
    [Repository |-> sRepo, Message |-> message, HTMLURL |-> <<"commit", 1, 1>>, Date |-> 1]

\* The n-th sample issue or pull request: number n, with the n-th body.
SampleIssue(c, n) ==
    [Number |-> n, Title |-> sFixBug, Body |-> SampleBodies[n], Repository |-> sRepo,
     HTMLURL |-> <<c, 1, 1>>, CreatedAt |-> 1]

SampleActivities ==
    {commitActivity(SampleCommit(m)) : m \in SampleCommitMessages}
    \cup {pullRequestActivity(SampleIssue("pull_request", n)) : n \in DOMAIN SampleBodies}
    \cup {issueActivity(SampleIssue("issue", n)) : n \in DOMAIN SampleBodies}
    \cup {reviewActivity(SampleIssue("review", n)) : n \in {1, 2}}

InitFormat ==
    /\ pc = "formatActivitiesForLLM"
    /\ \E n \in 0..MaxActivities : activities \in [1..n -> SampleActivities]
    /\ flagUser = "u"
    /\ flagRepo = ""
    /\ flagModel = <<>>
    /\ flagPrompts = <<>>
    /\ page = 1
    /\ collected = <<>>
    /\ caErr = ""
    /\ commitsErr = FALSE
    /\ requests = <<>>
    /\ fullLeft = 0
    /\ deep = {}
    /\ shortSizes = {}
    /\ llmClient = TRUE
    /\ activitySummary = <<>>
    /\ promptConfig = NoConfig
    /\ promptMessages = NilMessages
    /\ calls = <<>>
    /\ httpResponse = NoResponse
    /\ report = NoReport
    /\ output = <<>>
    /\ runErr = ""
    /\ exitCode = -1

FormatActivities ==
    /\ pc = "formatActivitiesForLLM"
    /\ activitySummary' = formatActivitiesForLLM(activities)
    /\ pc' = "formatted"
    /\ UNCHANGED <<flagUser, flagVars, collectVars, llmClient, promptConfig,
                   promptMessages, calls, httpResponse, report, output, runErr, exitCode>>

NextFormat == FormatActivities

SpecFormat == InitFormat /\ [][NextFormat]_vars

----------------------------------------------------------------------------
(* cmd/standup: runStandup and main *)

\* Lines 85-97: the overrides parsed from --prompts, or the error
parsePrompts(prompts) ==
    IF \E i \in 1..Len(prompts) : Len(SplitN2(prompts[i], <<":">>)) # 2
    THEN [err |-> TRUE, msgs |-> NilMessages]
    ELSE [err |-> FALSE,
          msgs |-> [isNil |-> Len(prompts) = 0,
                    list |-> [i \in 1..Len(prompts) |->
                                [Role |-> SplitN2(prompts[i], <<":">>)[1],
                                 Content |-> SplitN2(prompts[i], <<":">>)[2]]]]]

\* runStandup returns err and main exits
Exit(err) ==
    /\ pc' = "done"
    /\ runErr' = err
    /\ exitCode' = IF err = "" THEN 0 ELSE 1

NewClient ==
    /\ pc = "NewClient"
    /\ \E ok \in BOOLEAN :
         IF ~ok THEN Exit("failed to create GitHub client")
         ELSE /\ pc' = IF flagUser = "" THEN "GetCurrentUser" ELSE "getCommits"
              /\ UNCHANGED <<runErr, exitCode>>
    /\ UNCHANGED <<flagUser, flagVars, collectVars, llmVars, output>>

GetCurrentUser ==
    /\ pc = "GetCurrentUser"
    /\ \E login \in {"", "u"} :
         IF login = ""
         THEN Exit("failed to get current user") /\ UNCHANGED flagUser
         ELSE /\ flagUser' = login
              /\ pc' = "getCommits"
              /\ UNCHANGED <<runErr, exitCode>>
    /\ UNCHANGED <<flagVars, collectVars, llmVars, output>>

\* runStandup without the check for an empty activity sequence
HandleCollectedNoEmptyCheck ==
    /\ pc = "collected"
    /\ IF caErr # "" THEN Exit("failed to collect GitHub activity") /\ UNCHANGED output
       ELSE /\ pc' = "llmNewClient"
            /\ UNCHANGED <<runErr, exitCode, output>>
    /\ UNCHANGED <<flagUser, flagVars, collectVars, llmVars>>

\* Lines 66-78: CollectActivity has returned
HandleCollected ==
    /\ pc = "collected"
    /\ IF caErr # "" THEN Exit("failed to collect GitHub activity") /\ UNCHANGED output
       ELSE IF Len(activities) = 0
       THEN Exit("") /\ output' = Append(output, [kind |-> "message", text |-> sNoActivity])
       ELSE /\ pc' = "llmNewClient"
            /\ UNCHANGED <<runErr, exitCode, output>>
    /\ UNCHANGED <<flagUser, flagVars, collectVars, llmVars>>

\* Lines 80-97: llm.NewClient, then the overrides are parsed
NewLLMClient ==
    /\ pc = "llmNewClient"
    /\ llmClient' = TRUE
    /\ \E token \in {"", "tok"} :
         IF token = ""
         THEN Exit("failed to create LLM client") /\ UNCHANGED promptMessages
         ELSE LET parsed == parsePrompts(flagPrompts) IN
              IF parsed.err
              THEN Exit("invalid prompt format") /\ UNCHANGED promptMessages
              ELSE /\ promptMessages' = parsed.msgs
                   /\ pc' = "GenerateStandupReport"
                   /\ UNCHANGED <<runErr, exitCode>>
    /\ UNCHANGED <<flagUser, flagVars, collectVars, activitySummary, promptConfig,
                   calls, httpResponse, report, output>>

\* Lines 107-163 of package llm: up to the request being sent
GenerateStandupReport ==
    /\ pc = "GenerateStandupReport"
    /\ activitySummary' = formatActivitiesForLLM(activities)
    /\ \E config \in Configs \cup {NoConfig} :
         /\ promptConfig' = config
         /\ IF ~config.ok
            THEN /\ report' = [NoReport EXCEPT !.err = "failed to parse prompt configuration"]
                 /\ Exit("failed to generate standup report")
                 /\ UNCHANGED calls
            ELSE /\ calls' = Append(calls, buildRequest(activitySummary', config,
                                                        flagModel, promptMessages))
                 /\ pc' = "callGitHubModels"
                 /\ UNCHANGED <<report, runErr, exitCode>>
    /\ UNCHANGED <<flagUser, flagVars, collectVars, llmClient, promptMessages,
                   httpResponse, output>>

\* callGitHubModels returns, then lines 164-173 and runStandup's lines 101-107
CompletionResponse ==
    /\ pc = "callGitHubModels"
    /\ \E http \in HTTPResponses :
         LET r == reportOf(callGitHubModels(http)) IN
         /\ httpResponse' = http
         /\ report' = r
         /\ IF r.err # ""
            THEN Exit("failed to generate standup report") /\ UNCHANGED output
            ELSE Exit("") /\ output' = Append(output, [kind |-> "report", text |-> r.text])
    /\ UNCHANGED <<flagUser, flagVars, collectVars, llmClient, activitySummary,
                   promptConfig, promptMessages, calls>>

Init ==
    /\ pc = "NewClient"
    /\ flagUser \in {"", "u"}
    /\ flagRepo \in Repos
    /\ flagModel \in Models
    /\ flagPrompts \in PromptFlags
    /\ page = 1
    /\ collected = <<>>
    /\ activities = <<>>
    /\ caErr = ""
    /\ commitsErr = FALSE
    /\ requests = <<>>
    /\ fullLeft = RunFullPages
    /\ deep = {}
    /\ shortSizes = {1}
    /\ llmClient = FALSE
    /\ activitySummary = <<>>
    /\ promptConfig = NoConfig
    /\ promptMessages = NilMessages
    /\ calls = <<>>
    /\ httpResponse = NoResponse
    /\ report = NoReport
    /\ output = <<>>
    /\ runErr = ""
    /\ exitCode = -1

\* One run with the default flags, against sources that serve full pages
InitPass ==
    /\ pc = "NewClient"
    /\ flagUser \in {"", "u"}
    /\ flagRepo = ""
    /\ flagModel = <<"o", "p", "e", "n", "a", "i", "/", "g", "p", "t", "-", "4", "o">>
    /\ flagPrompts = <<>>
    /\ page = 1
    /\ collected = <<>>
    /\ activities = <<>>
    /\ caErr = ""
    /\ commitsErr = FALSE
    /\ requests = <<>>
    /\ fullLeft = PassFullPages
    /\ deep = {}
    /\ shortSizes = {1}
    /\ llmClient = FALSE
    /\ activitySummary = <<>>
    /\ promptConfig = NoConfig
    /\ promptMessages = NilMessages
    /\ calls = <<>>
    /\ httpResponse = NoResponse
    /\ report = NoReport
    /\ output = <<>>
    /\ runErr = ""
    /\ exitCode = -1

Next ==
    \/ NewClient
    \/ GetCurrentUser
    \/ NextCollect
    \/ HandleCollected
    \/ NewLLMClient
    \/ GenerateStandupReport
    \/ CompletionResponse

Spec == Init /\ [][Next]_vars

SpecPass == InitPass /\ [][Next]_vars

----------------------------------------------------------------------------
(* Properties of CollectActivity and the collectors *)

PcOf(c) ==
    CASE c = "commit" -> "getCommits"
      [] c = "pull_request" -> "getPullRequests"
      [] c = "issue" -> "getIssues"
      [] c = "review" -> "getReviews"

Reliable == {"pull_request", "issue", "review"}

\* the requests collector c issued, in the order it issued them
RequestsOf(c) == SelectSeq(requests, LAMBDA r : r.coll = c)

Invoked(c) == \E i \in 1..Len(requests) : requests[i].coll = c
Failed(c) == \E i \in 1..Len(requests) : requests[i].coll = c /\ requests[i].err

\* CollectActivity has returned
Returned == pc \notin {"NewClient", "GetCurrentUser", "getCommits", "getPullRequests",
                       "getIssues", "getReviews"} /\ requests # <<>>

\* C1: a commit-search failure, on whatever page, never aborts the
\* aggregator: getCommits having failed, no commit record is kept (also none
\* of the pages fetched before the failure), the pull-request collector is
\* invoked, the issue and review collectors are invoked as they are after a
\* successful commit search, and CollectActivity returns no error when these
\* three succeed.
C1_CommitFailureNotFatal ==
    commitsErr =>
        /\ pc # "getCommits"
        /\ \A i \in 1..Len(activities) : activities[i].Type # "commit"
        /\ Returned =>
             /\ Invoked("pull_request")
             /\ ~Failed("pull_request") => Invoked("issue")
             /\ ~Failed("pull_request") /\ ~Failed("issue") => Invoked("review")
             /\ (\A c \in Reliable : ~Failed(c)) => caErr = ""

\* the commit search failed on a later page, after a full page of commits,
\* and CollectActivity returned the records of the other three collectors
C1_Witness ==
    /\ pc = "collected"
    /\ commitsErr
    /\ \E i \in 1..Len(requests) :
         requests[i].coll = "commit" /\ ~requests[i].err /\ requests[i].n = perPage
    /\ caErr = ""
    /\ \A c \in Reliable : \E i \in 1..Len(activities) : activities[i].Type = c

FatalError(c) ==
    CASE c = "pull_request" -> "failed to get pull requests"
      [] c = "issue" -> "failed to get issues"
      [] c = "review" -> "failed to get reviews"

LaterThan(c) ==
    CASE c = "pull_request" -> {"issue", "review"}
      [] c = "issue" -> {"review"}
      [] c = "review" -> {}

\* C2: a failure of the pull-request, issue or review collector is fatal: as
\* soon as one of them has failed, CollectActivity has returned that error
\* with no activity record at all, the failed request is the last request
\* made, and no later collector was invoked.
C2_ReliableFailureFatal ==
    \A c \in Reliable :
        Failed(c) =>
            /\ Returned
            /\ caErr = FatalError(c)
            /\ activities = <<>>
            /\ requests[Len(requests)].coll = c /\ requests[Len(requests)].err
            /\ \A d \in LaterThan(c) : ~Invoked(d)

\* the issue search failed after commits and pull requests had been collected
C2_Witness ==
    /\ Failed("issue")
    /\ ~commitsErr
    /\ \E i \in 1..Len(requests) : requests[i].coll = "commit" /\ requests[i].n > 0
    /\ \E i \in 1..Len(requests) : requests[i].coll = "pull_request" /\ requests[i].n > 0

\* C3: the pagination contract of every collector: the first request is for
\* page 1; page n+1 is requested if and only if the request for page n
\* succeeded with exactly perPage items and n < 10; so a collector makes at
\* most 10 requests, each for perPage items, and yields at most 1000 records.
C3_Pagination ==
    /\ \A c \in Types :
         LET rs == RequestsOf(c) IN
         /\ Len(rs) <= maxPage
         /\ \A i \in 1..Len(rs) :
              /\ rs[i].req.page = i
              /\ rs[i].req.per_page = perPage
              /\ i < Len(rs) => ~rs[i].err /\ rs[i].n = perPage /\ i < maxPage
              /\ (i = Len(rs) /\ ~rs[i].err /\ rs[i].n = perPage /\ i < maxPage)
                   => pc = PcOf(c) /\ page = i + 1
         /\ Len(OfType(activities, c)) <= maxPage * perPage
    /\ Len(collected) <= maxPage * perPage

\* the review collector stopped after ten full pages although upstream had
\* another full page to serve
C3_Witness ==
    /\ pc = "collected"
    /\ Len(RequestsOf("review")) = maxPage
    /\ RequestsOf("review")[maxPage].n = perPage
    /\ fullLeft > 0
    /\ Len(OfType(activities, "review")) = maxPage * perPage

\* the items of the pages collector c fetched, by ascending page number, each
\* named by its html_url
FetchedOf(c) ==
    LET rs == RequestsOf(c) IN
    Concat([p \in 1..maxPage |->
              IF \E i \in 1..Len(rs) : rs[i].req.page = p /\ ~rs[i].err
              THEN LET r == rs[CHOOSE i \in 1..Len(rs) : rs[i].req.page = p /\ ~rs[i].err]
                   IN [k \in 1..r.n |-> <<c, p, k>>]
              ELSE <<>>])

\* C4: on success the returned sequence is the commit records (none if the
\* commit search failed), then the pull-request, the issue and the review
\* records; each category holds one record per item of every fetched page,
\* pages ascending and items in page order; every record has the type of its
\* collector.
C4_ConcatenationInOrder ==
    (Returned /\ caErr = "") =>
        /\ [k \in 1..Len(activities) |-> activities[k].URL]
             = (IF commitsErr THEN <<>> ELSE FetchedOf("commit"))
               \o FetchedOf("pull_request") \o FetchedOf("issue") \o FetchedOf("review")
        /\ \A k \in 1..Len(activities) :
             activities[k].Type \in Types /\ activities[k].Type = activities[k].URL[1]

\* a successful collection with records of all four types, the pull requests
\* spread over more than one page
C4_Witness ==
    /\ pc = "collected"
    /\ caErr = ""
    /\ \A c \in Types : \E i \in 1..Len(activities) : activities[i].Type = c
    /\ Len(RequestsOf("pull_request")) = 3

HasRepoTerm(q, repo) ==
    \E i \in 1..Len(q) - 1 : q[i] = "repo:" /\ q[i + 1] = repo

\* C5: with a repository filter each of the four collectors' queries holds
\* the term repo:<owner/name>; without one no query holds a repo: term.
C5_RepoTermInEveryQuery ==
    \A i \in 1..Len(requests) :
        IF flagRepo # "" THEN HasRepoTerm(requests[i].req.q, flagRepo)
        ELSE \A j \in 1..Len(requests[i].req.q) : requests[i].req.q[j] # "repo:"

----------------------------------------------------------------------------
(* Properties of the formatted activity block *)

\* C6: for the commit message "Fix bug\n\nDetails here" the commit collector
\* makes a record titled "Fix bug" whose description is the whole message,
\* and formatActivitiesForLLM emits for it the line "- [o/r] Fix bug" followed
\* by the line "  Description: Details here".
C6_CommitBodyShown ==
    LET message == sFixBug \o <<NL, NL>> \o sDetailsHere
        record == commitActivity(SampleCommit(message)) IN
    (pc = "formatted" /\ activities = <<record>>) =>
        /\ record.Title = sFixBug
        /\ record.Description = message
        /\ activitySummary = sCommits \o <<"-", " ", "[">> \o sRepo \o <<"]", " ">>
                               \o sFixBug \o <<NL>>
                               \o sDescription \o sDetailsHere \o <<NL>> \o <<NL>>

----------------------------------------------------------------------------
(* Properties of a run *)

NoActivityMessage == [kind |-> "message", text |-> sNoActivity]

\* C7: when CollectActivity returns an empty sequence without error, the
\* run prints the "No GitHub activity found" message and ends successfully,
\* without creating the LLM client or calling the completion endpoint; the
\* LLM client and the report generator are only reached with a non-empty
\* activity sequence.
C7_NoActivityIsNotAnError ==
    /\ (Returned /\ caErr = "" /\ activities = <<>>) =>
         /\ pc \in {"collected", "done"}
         /\ ~llmClient
         /\ calls = <<>>
         /\ pc = "done" => exitCode = 0 /\ runErr = "" /\ output = <<NoActivityMessage>>
    /\ (llmClient \/ calls # <<>>
          \/ pc \in {"llmNewClient", "GenerateStandupReport", "callGitHubModels"})
         => Len(activities) > 0

\* the commit search failed, the other three sources were empty, and the run
\* ended successfully with the message
C7_Witness ==
    /\ pc = "done"
    /\ commitsErr
    /\ \A c \in Reliable : Invoked(c) /\ ~Failed(c)
    /\ activities = <<>>
    /\ exitCode = 0
    /\ output = <<NoActivityMessage>>

Malformed(prompt) == \A k \in 1..Len(prompt) : prompt[k] # ":"

\* C8: a run given an override without ':' reports an error and exits
\* non-zero, and never calls the completion endpoint, whatever activity
\* collection yields.
C8_MalformedOverrideFatal ==
    (pc = "done" /\ \E i \in 1..Len(flagPrompts) : Malformed(flagPrompts[i]))
        => exitCode # 0 /\ runErr # "" /\ calls = <<>>

\* the places of s where the placeholder starts
Occurrences(s) ==
    {i \in 1..Len(s) : i + Len(sPlaceholder) - 1 <= Len(s)
                       /\ SubSeq(s, i, i + Len(sPlaceholder) - 1) = sPlaceholder}

\* s with the block at every place where the placeholder stands, and every
\* other character as it is
Substituted(s, block) ==
    Concat([i \in 1..Len(s) |->
              IF i \in Occurrences(s) THEN block
              ELSE IF \E j \in Occurrences(s) : j < i /\ i < j + Len(sPlaceholder) THEN <<>>
              ELSE <<s[i]>>])

\* override is role, ':', content, the role holding no ':'
IsOverride(override, role, content) ==
    /\ override = role \o <<":">> \o content
    /\ \A k \in 1..Len(role) : role[k] # ":"

\* C9: the messages of the completion request are the overrides, when there
\* are overrides (same number, order and roles, none of the configured
\* messages), and the configured messages otherwise; each content is the
\* source content with the formatted activity block at every {{activities}}
\* and nothing else changed.
C9_RequestMessages ==
    \A n \in 1..Len(calls) :
        LET messages == calls[n].Messages
            block == activitySummary IN
        IF Len(flagPrompts) > 0
        THEN /\ Len(messages) = Len(flagPrompts)
             /\ \A i \in 1..Len(messages) :
                  \E k \in 1..Len(flagPrompts[i]) :
                      /\ IsOverride(flagPrompts[i], messages[i].Role,
                                    SubSeq(flagPrompts[i], k + 1, Len(flagPrompts[i])))
                      /\ messages[i].Content
                           = Substituted(SubSeq(flagPrompts[i], k + 1, Len(flagPrompts[i])), block)
        ELSE /\ Len(messages) = Len(promptConfig.Messages)
             /\ \A i \in 1..Len(messages) :
                  /\ messages[i].Role = promptConfig.Messages[i].Role
                  /\ messages[i].Content = Substituted(promptConfig.Messages[i].Content, block)

\* a request was sent whose messages are two overrides, one holding the
\* placeholder twice
C9_Witness ==
    /\ Len(calls) = 1
    /\ Len(flagPrompts) = 2
    /\ \E i \in 1..2 :
         Cardinality(Occurrences(SubSeq(flagPrompts[i], Len(calls[1].Messages[i].Role) + 2,
                                        Len(flagPrompts[i])))) = 2

\* t is s without its leading and trailing white space
IsTrimmed(t, s) ==
    \E i \in 1..Len(s) + 1 : \E j \in 0..Len(s) :
        /\ t = SubSeq(s, i, j)
        /\ \A k \in 1..Len(s) : (k < i \/ k > j) => s[k] \in Whitespace
        /\ t # <<>> => t[1] \notin Whitespace /\ t[Len(t)] \notin Whitespace

sReportText == <<"R", "e", "p", "o", "r", "t", " ", "t", "e", "x", "t">>

\* C10: once the completion endpoint has answered: a status other than 200
\* gives an error carrying the status and the raw body, and no report; a 200
\* answer with no choice gives the error "no response generated" and no
\* report; a 200 answer with choices gives, without error, the first choice's
\* content without its leading and trailing white space ("  Report text  \n"
\* gives "Report text").
C10_ResponseHandling ==
    (pc = "done" /\ calls # <<>> /\ httpResponse.sent) =>
        /\ httpResponse.status # StatusOK =>
             /\ report.err = "API request failed"
             /\ report.status = httpResponse.status
             /\ report.body = <<httpResponse.valid, httpResponse.choices>>
             /\ report.text = <<>> /\ output = <<>> /\ exitCode = 1
        /\ (httpResponse.status = StatusOK /\ httpResponse.valid
              /\ httpResponse.choices = <<>>) =>
             /\ report.err = "no response generated from the model"
             /\ report.text = <<>> /\ output = <<>> /\ exitCode = 1
        /\ (httpResponse.status = StatusOK /\ httpResponse.valid
              /\ httpResponse.choices # <<>>) =>
             /\ report.err = ""
             /\ IsTrimmed(report.text, httpResponse.choices[1])
             /\ httpResponse.choices[1] = <<" ", " ">> \o sReportText \o <<" ", " ", NL>>
                  => report.text = sReportText
             /\ output = <<[kind |-> "report", text |-> report.text]>>
             /\ exitCode = 0

\* a 200 answer with two choices gave the first one, trimmed
C10_Witness ==
    /\ pc = "done"
    /\ httpResponse.sent /\ httpResponse.status = StatusOK
    /\ Len(httpResponse.choices) = 2
    /\ report.text = <<"A">>
    /\ report.err = ""

----------------------------------------------------------------------------
(* Description lines of pull requests, issues and reviews *)

\* whether text holds part from place at on
StartsAt(text, at, part) ==
    /\ at >= 1
    /\ at + Len(part) - 1 <= Len(text)
    /\ SubSeq(text, at, at + Len(part) - 1) = part

\* the place of the summary just after the item line of record a, 0 when
\* the summary has no such line
AfterItemLine(a) ==
    LET places == {at \in 1..Len(activitySummary) :
                      StartsAt(activitySummary, at, itemLine(a))} IN
    IF places = {} THEN 0
    ELSE (CHOOSE at \in places : \A other \in places : at <= other) + Len(itemLine(a))

\* the item line of record a is followed by a description line
HasDescriptionLine(a) == StartsAt(activitySummary, AfterItemLine(a), sDescription)

\* C11: in the formatted summary every pull-request and issue record has its
\* line "- [<repository>] <title>", followed by the line
\* "  Description: <trimmed description>" if and only if the description is
\* non-empty and has fewer than 200 characters; the line of a review record
\* is never followed by a description line.
C11_DescriptionUnder200Characters ==
    pc = "formatted" =>
        \A i \in DOMAIN activities :
            LET a == activities[i] IN
            /\ a.Type \in {"pull_request", "issue"} =>
                 /\ AfterItemLine(a) # 0
                 /\ HasDescriptionLine(a)
                      <=> (a.Description # <<>> /\ Len(a.Description) < descLimit)
                 /\ HasDescriptionLine(a) =>
                      StartsAt(activitySummary, AfterItemLine(a),
                               descriptionLine(TrimSpace(a.Description)))
            /\ a.Type = "review" => AfterItemLine(a) # 0 /\ ~HasDescriptionLine(a)

\* The same rule on the records whose description is ASCII only, where the
\* number of characters is the number of bytes.
C11_OnASCII ==
    (pc = "formatted"
       /\ \A i \in DOMAIN activities :
            \A k \in DOMAIN activities[i].Description :
                activities[i].Description[k] \notin TwoByteChars)
    => C11_DescriptionUnder200Characters

----------------------------------------------------------------------------
(* Structure of the formatted summary *)

SectionOrder == <<"commit", "pull_request", "issue", "review">>

SectionHeader(t) ==
    CASE t = "commit" -> sCommits
      [] t = "pull_request" -> sPullRequests
      [] t = "issue" -> sIssues
      [] t = "review" -> sCodeReviews

\* the places of the summary where a line starts
LineStarts ==
    {at \in 1..Len(activitySummary) : at = 1 \/ activitySummary[at - 1] = NL}

\* the places where the header line of category t stands
HeaderPlaces(t) ==
    {at \in LineStarts : StartsAt(activitySummary, at, SectionHeader(t))}

AnyHeaderPlaces == UNION {HeaderPlaces(t) : t \in Types}

\* the places where an item line "- [..." starts in the section whose header
\* stands at place h: those after h and before the next header
ItemPlaces(h) ==
    {at \in LineStarts :
        /\ StartsAt(activitySummary, at, <<"-", " ", "[">>)
        /\ at > h
        /\ \A other \in AnyHeaderPlaces : other > h => at < other}

\* the k-th least place of a set of places
Kth(places, k) ==
    CHOOSE at \in places : Cardinality({b \in places : b < at}) = k - 1

\* C12: the summary of no record at all is exactly the sentence "No GitHub
\* activity found for the specified period." with no section header; the
\* summary of one record or more has the section of a category if and only
\* if a record of that category is present, has the sections in the order
\* commits, pull requests, issues, reviews whatever the order of the records,
\* and lists in each section one item line per record of the category, in
\* input order.
C12_SummaryStructure ==
    pc = "formatted" =>
        /\ Len(activities) = 0 =>
             activitySummary = sNoActivity /\ AnyHeaderPlaces = {}
        /\ Len(activities) > 0 =>
             /\ \A t \in Types :
                  IF OfType(activities, t) = <<>> THEN HeaderPlaces(t) = {}
                  ELSE Cardinality(HeaderPlaces(t)) = 1
             /\ \A i, j \in DOMAIN SectionOrder :
                  i < j => \A hi \in HeaderPlaces(SectionOrder[i]) :
                             \A hj \in HeaderPlaces(SectionOrder[j]) : hi < hj
             /\ \A t \in Types : \A h \in HeaderPlaces(t) :
                  LET records == OfType(activities, t) IN
                  /\ Cardinality(ItemPlaces(h)) = Len(records)
                  /\ \A k \in DOMAIN records :
                       StartsAt(activitySummary, Kth(ItemPlaces(h), k), itemLine(records[k]))

\* a review given before a commit: the commit's section comes first
C12_Witness ==
    /\ pc = "formatted"
    /\ Len(activities) = 2
    /\ activities[1].Type = "review" /\ activities[2].Type = "commit"
    /\ \E hc \in HeaderPlaces("commit") : \E hr \in HeaderPlaces("review") : hc < hr

\* two pull requests of different titles, listed as given
C12_WitnessInputOrder ==
    /\ pc = "formatted"
    /\ Len(activities) = 2
    /\ activities[1].Type = "pull_request" /\ activities[2].Type = "pull_request"
    /\ activities[1].Title # activities[2].Title
    /\ \E h \in HeaderPlaces("pull_request") :
         /\ StartsAt(activitySummary, Kth(ItemPlaces(h), 1), itemLine(activities[1]))
         /\ StartsAt(activitySummary, Kth(ItemPlaces(h), 2), itemLine(activities[2]))

----------------------------------------------------------------------------
(* Model and sampling parameters of the completion request *)

\* a and b are the same character, or the two cases of one letter
SameLetter(a, b) ==
    a = b \/ \E i \in DOMAIN UpperCase : {a, b} = {UpperCase[i], LowerCase[i]}

\* s and t are the same name up to the case of the letters
SameName(s, t) ==
    Len(s) = Len(t) /\ \A k \in DOMAIN s : SameLetter(s[k], t[k])

C13_WitnessConfigured ==
    \E n \in DOMAIN calls :
        /\ flagModel = <<>>
        /\ calls[n].Model = promptConfig.Model
        /\ \A e \in modelTemperatureMap : e[1] # promptConfig.Model
        /\ calls[n].Temperature = promptConfig.Temperature

----------------------------------------------------------------------------
(* One run is one sequential pass *)

CollectorOrder == <<"commit", "pull_request", "issue", "review">>

OrderOf(c) == CHOOSE i \in DOMAIN CollectorOrder : CollectorOrder[i] = c

\* the collector that made request r returns on its response
LastOfCollector(r) == r.err \/ r.n < perPage \/ r.req.page >= maxPage

\* a fatal error has occurred: CollectActivity, the report generator or
\* runStandup has returned an error
ErrorSeen == caErr # "" \/ report.err # "" \/ runErr # ""

\* the step makes a network request: a search, a completion call, or the
\* lookup of the current user
NetworkStep == requests' # requests \/ calls' # calls \/ pc = "GetCurrentUser"

\* what the logs of requests and completion calls show at any moment of a run
SequentialPass ==
    /\ requests # <<>> => requests[1].coll = "commit" /\ requests[1].req.page = 1
    /\ \A i \in 1..(Len(requests) - 1) :
         LET this == requests[i]
             next == requests[i + 1] IN
         \/ /\ next.coll = this.coll
            /\ ~LastOfCollector(this)
         \/ /\ OrderOf(next.coll) = OrderOf(this.coll) + 1
            /\ LastOfCollector(this)
            /\ next.req.page = 1
    /\ \A i, j \in DOMAIN requests :
         (i < j /\ requests[i].coll = requests[j].coll) =>
             /\ requests[i].req.page # requests[j].req.page
             /\ ~requests[i].err
    /\ Len(calls) <= 1
    /\ calls # <<>> =>
         /\ Returned
         /\ \A c \in Types : Invoked(c)
         /\ \A c \in Reliable : ~Failed(c)
         /\ LastOfCollector(requests[Len(requests)])

\* C14: a run is one sequential pass without retry: the collectors are
\* invoked in the order commits, pull requests, issues, reviews, each after
\* the one before it has returned; a collector requests no page number twice
\* and makes no request after a failed one; the completion endpoint is called
\* at most once, and only when all four collectors have returned and the
\* pull-request, issue and review collectors have succeeded; once a fatal
\* error has occurred no step makes a network request.
C14_SinglePass ==
    /\ []SequentialPass
    /\ [][ErrorSeen => ~NetworkStep]_vars

\* a finished run in which the commit search failed, another collector went
\* on to page 2, and the completion endpoint was called
C14_Witness ==
    /\ pc = "done"
    /\ Len(calls) = 1
    /\ Failed("commit")
    /\ \E i \in DOMAIN requests : requests[i].req.page = 2
    /\ \A c \in Types : Invoked(c)

\* a run that ended on the failure of page 2 of the issue search
C14_WitnessFatal ==
    /\ pc = "done"
    /\ exitCode = 1
    /\ requests # <<>>
    /\ requests[Len(requests)].coll = "issue"
    /\ requests[Len(requests)].req.page = 2
    /\ requests[Len(requests)].err
    /\ calls = <<>>

====
